---- MODULE Spec2Model ----
(***************************************************************************)
(* Order state store of the wine-tasting manager (WTM).                    *)
(*                                                                         *)
(* The repository holds several server variants over the same order data:  *)
(*   - the in-memory Map server          (src/unnamed/part_000, 1-337)     *)
(*   - the pg server with memory fallback (src/unnamed/part_000, 338-662)  *)
(*   - the express server with socket.io  (src/backend/server.js)          *)
(*   - the "production" orders router     (src/unnamed/part_003)           *)
(*   - the uuid orders router             (src/backend/routes/orders.js)   *)
(* Each variant is a specification of its own over the shared variables.   *)
(*                                                                         *)
(* Strings that the code inspects character by character (group names,     *)
(* slugs, order ids, identifiers of a URL) are sequences of one-character  *)
(* strings.                                                                *)
(***************************************************************************)
EXTENDS Integers, Sequences, FiniteSets, TLC

VARIABLES
    mapOrders,   \* part_000:6    let orders = new Map()   (insertion ordered)
    mapGroups,   \* part_000:7    let groups = new Map()
    dbOrders,    \* the rows of the orders table, in insertion order
    dbNextId,    \* the SERIAL sequence of orders.id
    now,         \* the database clock read by NOW()
    reqs,        \* handlers suspended at an await, by slot
    dbGroups,    \* the rows of the groups table (pg server with fallback)
    memOrders,   \* part_000:354  let orders = []   the fallback store
    memGroups,   \* part_000:355  let groups = []
    events,      \* what io.emit has sent so far, in order
    env,         \* the deployment: column types of the orders table, io attached
    sockets,     \* the staff terminals connected to io, by the winery of their staff
    last,        \* the last request answered and its response
    nreq         \* number of requests received so far

mapVars == <<mapOrders, mapGroups>>

fbVars == <<dbGroups, memOrders, memGroups>>

pgVars == <<dbOrders, dbNextId, now, reqs, events, env, sockets, fbVars>>

vars == <<mapOrders, mapGroups, dbOrders, dbNextId, now, reqs, dbGroups, memOrders,
          memGroups, events, env, sockets, last, nreq>>

(***************************************************************************)
(* Bounds of the model.                                                    *)
(***************************************************************************)
MaxOrders == 2      \* creates accepted per behaviour
MaxMapReqs == 4     \* requests received per behaviour of the Map server
MaxProdReqs == 3    \* requests received per behaviour of the production router
MaxSrvReqs == 3     \* requests received per behaviour of the socket.io server
MaxRtReqs == 3      \* requests received per behaviour of the uuid router
MaxFbReqs == 4      \* requests received per behaviour of the pg server with fallback
MaxInflight == 2    \* handlers suspended at an await at the same time

\* a request arrives
Receive(max) ==
    /\ nreq < max
    /\ nreq' = nreq + 1

(***************************************************************************)
(* Strings.                                                                *)
(***************************************************************************)
UpperToLower == [c \in {"T", "O"} |-> IF c = "T" THEN "t" ELSE "o"]

\* String.prototype.toLowerCase, one character
LowerChar(c) == IF c \in DOMAIN UpperToLower THEN UpperToLower[c] ELSE c

\* the character class [a-z0-9] of the replace in the slug expression
IsLowerAlnum(c) == c \in {"t", "o", "1", "2", "3", "4", "5"}

\* name.toLowerCase().replace(/[^a-z0-9]/g, '_')
Slug(name) ==
    [i \in DOMAIN name |->
        LET c == LowerChar(name[i]) IN IF IsLowerAlnum(c) THEN c ELSE "_"]

\* group names a guest form may submit: "T 5", "t_5", "O1"
GroupNames == { <<"T", " ", "5">>, <<"t", "_", "5">>, <<"O", "1">> }

\* a string that no order id, slug or group name equals
UnknownIdent == <<"5", "5">>

(***************************************************************************)
(* Order documents submitted by the guest form.                            *)
(***************************************************************************)
\* a property that an object does not carry reads as undefined
Undefined == "undefined"

Sel(w, s) == [wine |-> w, status |-> s]

\* request bodies of POST /api/orders: guestNames and selections
Payloads ==
    { [guestNames |-> ("A" :> "Ann") @@ ("B" :> "Bob"),
       selections |-> ("A" :> <<Sel(1, "pending")>>) @@ ("B" :> <<Sel(2, "pending")>>)],
      [guestNames |-> ("A" :> ""),
       selections |-> ("A" :> <<Sel(1, Undefined)>>)] }

\* guest keys, item indexes (0-based, as in the request bodies) and statuses
\* a status request may carry
GuestInputs == {"A", "B", Undefined}
MaxWineIndex == 1
WineIndexes == 0 .. MaxWineIndex
StatusInputs == {"servi", "non-servi", Undefined}

\* selections[guest] && selections[guest][index]
HasSelection(selections, guest, index) ==
    /\ guest \in DOMAIN selections
    /\ index + 1 \in DOMAIN selections[guest]

\* a document that keeps only the guest whose selection is set
SetSelectionOfGuestOnly(selections, guest, index, status) ==
    [g \in {guest} |-> [selections[guest] EXCEPT ![index + 1].status = status]]

\* selections[guest][index].status = status
SetSelection(selections, guest, index, status) ==
    [selections EXCEPT ![guest][index + 1].status = status]

(***************************************************************************)
(* JavaScript Map: entries in insertion order, one entry per key.          *)
(***************************************************************************)
MapHas(m, k) == \E i \in DOMAIN m : m[i].id = k

MapGet(m, k) == m[CHOOSE i \in DOMAIN m : m[i].id = k]

\* a set that leaves the entry of an existing key as it is
MapSetKeepsFirst(m, v) == IF MapHas(m, v.id) THEN m ELSE Append(m, v)

\* Map.prototype.set: an existing key keeps its place
MapSet(m, v) ==
    IF MapHas(m, v.id)
    THEN [i \in DOMAIN m |-> IF m[i].id = v.id THEN v ELSE m[i]]
    ELSE Append(m, v)

MapKeys(m) == { m[i].id : i \in DOMAIN m }

(***************************************************************************)
(* Responses.                                                              *)
(***************************************************************************)
NoOrder == [none |-> TRUE]

\* the guest, item index and status of a status request
Target(guest, index, status) == [guest |-> guest, index |-> index, status |-> status]

NoTarget == Target(Undefined, 0, Undefined)

Response(op, ident, target, code, order, success) ==
    [op |-> op, ident |-> ident, target |-> target, code |-> code,
     order |-> order, success |-> success]

NoRequest == Response("none", <<>>, NoTarget, 0, NoOrder, FALSE)

(***************************************************************************)
(* The in-memory Map server.                                               *)
(***************************************************************************)
DigitOf == <<"1", "2", "3", "4">>

\* `order_${Date.now()}_${Math.random()...}`: a lower-case identifier, taken
\* to be distinct for every create (clock plus nine random base-36 digits)
MapOrderId(n) == <<"o", DigitOf[n]>>

\* Object.keys(guestNames || {}).length
GuestCount(guestNames) == Cardinality(DOMAIN guestNames)

\* Object.keys(guestNames).filter(key => guestNames[key]).length
NamedGuestCount(guestNames) ==
    Cardinality({ g \in DOMAIN guestNames : guestNames[g] # "" })

RECURSIVE SumLen(_, _)
SumLen(selections, keys) ==
    IF keys = {} THEN 0
    ELSE LET g == CHOOSE x \in keys : TRUE
         IN Len(selections[g]) + SumLen(selections, keys \ {g})

\* Object.values(selections).reduce((total, wines) => total + wines.length, 0)
WineCount(selections) == SumLen(selections, DOMAIN selections)

\* a create that files the group under the group name as it was typed
MapCreateKeyedByName(name, body) ==
    /\ Receive(MaxMapReqs)
    /\ Len(mapOrders) < MaxOrders
    /\ LET orderId == MapOrderId(Len(mapOrders) + 1)
           order == [id |-> orderId, groupId |-> Slug(name), groupName |-> name,
                     guestNames |-> body.guestNames, selections |-> body.selections,
                     status |-> "active"]
           group == [id |-> name, name |-> name, orderId |-> orderId,
                     status |-> "active",
                     guestCount |-> NamedGuestCount(body.guestNames),
                     wineCount |-> WineCount(body.selections)]
       IN /\ mapOrders' = MapSet(mapOrders, order)
          /\ mapGroups' = MapSet(mapGroups, group)
          /\ last' = Response("POST", orderId, NoTarget, 200, order, TRUE)
          /\ UNCHANGED pgVars

\* POST /api/orders
MapCreate(name, body) ==
    /\ Receive(MaxMapReqs)
    /\ Len(mapOrders) < MaxOrders
    /\ LET orderId == MapOrderId(Len(mapOrders) + 1)
           groupId == Slug(name)
           order == [id |-> orderId, groupId |-> groupId, groupName |-> name,
                     guestNames |-> body.guestNames, selections |-> body.selections,
                     status |-> "active"]
           group == [id |-> groupId, name |-> name, orderId |-> orderId,
                     status |-> "active",
                     guestCount |-> NamedGuestCount(body.guestNames),
                     wineCount |-> WineCount(body.selections)]
       IN /\ mapOrders' = MapSet(mapOrders, order)
          /\ mapGroups' = MapSet(mapGroups, group)
          /\ last' = Response("POST", orderId, NoTarget, 200, order, TRUE)
          /\ UNCHANGED pgVars

\* the first order, in insertion order, whose slugged name is the identifier
MapScanByName(os, identifier) ==
    LET hits == { i \in DOMAIN os : Slug(os[i].groupName) = identifier }
    IN IF hits = {} THEN NoOrder
       ELSE os[CHOOSE i \in hits : \A j \in hits : i <= j]

\* the lookup with the group index consulted before the order ids
MapResolveGroupFirst(os, gs, identifier) ==
    IF MapHas(gs, identifier) /\ MapHas(os, MapGet(gs, identifier).orderId)
    THEN MapGet(os, MapGet(gs, identifier).orderId)
    ELSE IF MapHas(os, identifier) THEN MapGet(os, identifier)
         ELSE MapScanByName(os, identifier)

\* GET /api/orders/:identifier, the lookup
MapResolve(os, gs, identifier) ==
    IF MapHas(os, identifier) THEN MapGet(os, identifier)
    ELSE IF MapHas(gs, identifier) /\ MapHas(os, MapGet(gs, identifier).orderId)
         THEN MapGet(os, MapGet(gs, identifier).orderId)
         ELSE MapScanByName(os, identifier)

\* GET /api/orders/:identifier
MapGetOrder(identifier) ==
    /\ Receive(MaxMapReqs)
    /\ LET order == MapResolve(mapOrders, mapGroups, identifier)
       IN last' = IF order # NoOrder
                  THEN Response("GET", identifier, NoTarget, 200, order, TRUE)
                  ELSE Response("GET", identifier, NoTarget, 404, NoOrder, FALSE)
    /\ UNCHANGED <<mapOrders, mapGroups>>
    /\ UNCHANGED pgVars

\* PUT /api/orders/:identifier, the lookup
MapResolveForUpdate(os, gs, identifier) ==
    IF MapHas(os, identifier) THEN MapGet(os, identifier)
    ELSE IF MapHas(gs, identifier)
         THEN IF MapHas(os, MapGet(gs, identifier).orderId)
              THEN MapGet(os, MapGet(gs, identifier).orderId)
              ELSE NoOrder
         ELSE NoOrder

\* PUT /api/orders/:identifier
MapPutOrder(identifier, guestId, wineIndex, status) ==
    LET order == MapResolveForUpdate(mapOrders, mapGroups, identifier)
    IN /\ Receive(MaxMapReqs)
       /\ UNCHANGED pgVars
       /\ IF order # NoOrder
          THEN LET updated ==
                       IF /\ guestId # Undefined /\ status # Undefined
                          /\ HasSelection(order.selections, guestId, wineIndex)
                       THEN [order EXCEPT !.selections =
                                 SetSelection(order.selections, guestId, wineIndex, status)]
                       ELSE order
               IN /\ mapOrders' = MapSet(mapOrders, updated)
                  /\ last' = Response("PUT", identifier,
                                      Target(guestId, wineIndex, status), 200, updated, TRUE)
                  /\ UNCHANGED mapGroups
          ELSE /\ last' = Response("PUT", identifier,
                                   Target(guestId, wineIndex, status), 404, NoOrder, FALSE)
               /\ UNCHANGED <<mapOrders, mapGroups>>

\* one element of the listing: the group record with its counts taken again
\* from the order it points to
MapGroupSummary(os, group) ==
    LET hasOrder == MapHas(os, group.orderId)
    IN [id |-> group.id, name |-> group.name, orderId |-> group.orderId,
        status |-> group.status, hasOrder |-> hasOrder,
        guestCount |-> IF hasOrder
                       THEN GuestCount(MapGet(os, group.orderId).guestNames) ELSE 0,
        wineCount |-> IF hasOrder
                      THEN WineCount(MapGet(os, group.orderId).selections) ELSE 0]

\* GET /api/groups
MapGetGroups ==
    /\ Receive(MaxMapReqs)
    /\ last' = Response("groups", <<>>, NoTarget, 200,
                        [groups |-> [k \in DOMAIN mapGroups |->
                                        MapGroupSummary(mapOrders, mapGroups[k])]],
                        TRUE)
    /\ UNCHANGED <<mapVars, pgVars>>

\* identifiers a caller may put in the URL
MapIdents ==
    { MapOrderId(n) : n \in 1 .. MaxOrders } \cup GroupNames
        \cup { Slug(n) : n \in GroupNames } \cup {UnknownIdent}

\* handler slots
Slots == 1 .. MaxInflight

FreeSlot == [pc |-> "free"]

Init ==
    /\ mapOrders = <<>>
    /\ mapGroups = <<>>
    /\ dbOrders = <<>>
    /\ dbNextId = 1
    /\ now = 0
    /\ reqs = [r \in Slots |-> FreeSlot]
    /\ dbGroups = <<>>
    /\ memOrders = <<>>
    /\ memGroups = <<>>
    /\ events = <<>>
    /\ env = [schema |-> "jsonb", io |-> TRUE]
    /\ sockets = {}
    /\ last = NoRequest
    /\ nreq = 0

InitMap == Init

NextMap ==
    \/ \E name \in GroupNames, body \in Payloads : MapCreate(name, body)
    \/ \E identifier \in MapIdents : MapGetOrder(identifier)
    \/ \E identifier \in MapIdents, guestId \in GuestInputs,
          wineIndex \in WineIndexes, status \in StatusInputs :
            MapPutOrder(identifier, guestId, wineIndex, status)

SpecMap == InitMap /\ [][NextMap]_vars

\* The group listing of the Map server over order documents of three guests:
\* each guest with or without a display name and with one to MaxSelections
\* selections.
MaxSelections == 3

AggGuestKeys == {"A", "B", "C"}

AggPayloads ==
    { [guestNames |-> names,
       selections |-> [g \in AggGuestKeys |->
                          [i \in 1 .. sizes[g] |-> Sel(i, "pending")]]] :
        names \in [AggGuestKeys -> {"", "Ann"}],
        sizes \in [AggGuestKeys -> 1 .. MaxSelections] }

AggNames == { <<"O", "1">> }

NextAgg ==
    \/ \E name \in AggNames, body \in AggPayloads : MapCreate(name, body)
    \/ MapGetGroups

SpecAgg == Init /\ [][NextAgg]_vars

\* The creates and reads of the Map server over every group name of up to
\* MaxNameLen characters of a capital and a space.
MaxNameLen == 3

SlugNames ==
    UNION { [1 .. n -> {"T", " "}] : n \in 1 .. MaxNameLen }

NextSlug ==
    \/ \E name \in SlugNames, body \in Payloads : MapCreate(name, body)
    \/ \E name \in SlugNames : MapGetOrder(Slug(name))

SpecSlug == Init /\ [][NextSlug]_vars

(***************************************************************************)
(* Properties of the in-memory Map server.                                 *)
(***************************************************************************)
OrdersWithId(os, identifier) == { i \in DOMAIN os : os[i].id = identifier }

OrdersWithSlug(os, identifier) == { i \in DOMAIN os : os[i].groupId = identifier }

OrdersWithSluggedName(os, identifier) ==
    { i \in DOMAIN os : Slug(os[i].groupName) = identifier }

\* what the read path must answer for an identifier, stated on the orders alone
ResolvedByPrecedence(os, identifier, answer) ==
    IF OrdersWithId(os, identifier) # {}
    THEN \A i \in OrdersWithId(os, identifier) : answer = os[i]
    ELSE IF OrdersWithSlug(os, identifier) # {}
         THEN \E i \in OrdersWithSlug(os, identifier) : answer = os[i]
         ELSE IF OrdersWithSluggedName(os, identifier) # {}
              THEN \E i \in OrdersWithSluggedName(os, identifier) :
                      /\ answer = os[i]
                      /\ \A j \in OrdersWithSluggedName(os, identifier) : i <= j
              ELSE answer = NoOrder

C4_GetAnswer ==
    last.op = "GET" =>
        /\ ResolvedByPrecedence(mapOrders, last.ident, last.order)
        /\ (last.order = NoOrder) = (last.code = 404)

C4_GetKeepsStore ==
    (last' # last /\ last'.op = "GET") => UNCHANGED <<mapOrders, mapGroups>>

\* C4: resolve(identifier) answers the order with that id if there is one,
\* otherwise an order with that group slug, otherwise the first order whose
\* slugged group name is the identifier, otherwise NotFound (one order or
\* NotFound), and a resolve leaves the store as it was.
C4_ResolverPrecedence == [](C4_GetAnswer) /\ [][C4_GetKeepsStore]_vars

\* C4 witness: the identifier is the id of one order and the group slug of
\* another, and the read answered the order with that id
C4_Witness ==
    /\ last.op = "GET"
    /\ last.order # NoOrder
    /\ last.order.id = last.ident
    /\ \E i \in DOMAIN mapOrders :
          mapOrders[i].groupId = last.ident /\ mapOrders[i].id # last.ident

\* the target of the last status request is no selection of a guest of the order
InvalidTarget(order, target) ==
    \/ target.guest \notin DOMAIN order.guestNames
    \/ ~ HasSelection(order.selections, target.guest, target.index)

\* C6: a status update whose guest key is no guest of the order, or whose
\* index is outside that guest's selections, is not reported as a success.
C6_InvalidTargetRejected ==
    (last.op = "PUT" /\ last.order # NoOrder /\ InvalidTarget(last.order, last.target))
        => (~ last.success /\ last.code # 200)

(***************************************************************************)
(* The orders table of the pg variants.                                    *)
(***************************************************************************)
RowsWithId(rows, id) == { i \in DOMAIN rows : rows[i].id = id }

\* UPDATE orders SET selections = $1, updated_at = NOW() WHERE id = $2
UpdateSelections(rows, id, selections, time) ==
    [i \in DOMAIN rows |->
        IF rows[i].id = id
        THEN [rows[i] EXCEPT !.selections = selections, !.updated_at = time]
        ELSE rows[i]]

\* the UPDATE of the status without its WHERE clause
UpdateStatusOfEveryRow(rows, id, status, time) ==
    [i \in DOMAIN rows |-> [rows[i] EXCEPT !.status = status, !.updated_at = time]]

\* UPDATE orders SET status = $1, updated_at = NOW() WHERE id = $2
UpdateStatus(rows, id, status, time) ==
    [i \in DOMAIN rows |->
        IF rows[i].id = id
        THEN [rows[i] EXCEPT !.status = status, !.updated_at = time]
        ELSE rows[i]]

\* the lowest free handler slot
IsFree(r) == reqs[r].pc = "free" /\ \A q \in Slots : q < r => reqs[q].pc # "free"

\* no handler is suspended at an await
Idle == \A r \in Slots : reqs[r].pc = "free"

\* ids a caller may put in the URL: those the sequence hands out, and one more
OrderIds == 1 .. (MaxOrders + 1)

(***************************************************************************)
(* The production orders router (part_003).                                *)
(***************************************************************************)
\* group names of a create request; <<>> is a missing group name
ProdNameInputs == GroupNames \cup {<<>>}

\* POST /: validation and the existence check
ProdCreateCheck(r, name, body, dbOk) ==
    /\ Receive(MaxProdReqs)
    /\ IsFree(r)
    /\ Len(dbOrders) + Cardinality({ q \in Slots : reqs[q].pc = "insert" }) < MaxOrders
    /\ UNCHANGED <<mapVars, fbVars, env, sockets, events, dbOrders, dbNextId, now>>
    /\ IF name = <<>>
       THEN /\ last' = Response("create", name, NoTarget, 400, NoOrder, FALSE)
            /\ UNCHANGED reqs
       ELSE IF ~ dbOk
       THEN /\ last' = Response("create", name, NoTarget, 500, NoOrder, FALSE)
            /\ UNCHANGED reqs
       ELSE IF \E i \in DOMAIN dbOrders : dbOrders[i].group_name = name
       THEN /\ last' = Response("create", name, NoTarget, 400, NoOrder, FALSE)
            /\ UNCHANGED reqs
       ELSE /\ reqs' = [reqs EXCEPT ![r] = [pc |-> "insert", op |-> "create",
                                            name |-> name, body |-> body]]
            /\ UNCHANGED last

\* POST /: the INSERT and the answer
ProdCreateInsert(r, dbOk) ==
    /\ reqs[r].pc = "insert"
    /\ reqs' = [reqs EXCEPT ![r] = FreeSlot]
    /\ UNCHANGED <<mapVars, fbVars, env, sockets, events, nreq>>
    /\ IF dbOk
       THEN LET row == [id |-> dbNextId, group_name |-> reqs[r].name,
                        guest_names |-> reqs[r].body.guestNames,
                        selections |-> reqs[r].body.selections,
                        status |-> "active", winery_id |-> 1,
                        created_at |-> now + 1, updated_at |-> now + 1]
            IN /\ dbOrders' = Append(dbOrders, row)
               /\ dbNextId' = dbNextId + 1
               /\ now' = now + 1
               /\ last' = Response("create", reqs[r].name, NoTarget, 200, row, TRUE)
       ELSE /\ last' = Response("create", reqs[r].name, NoTarget, 500, NoOrder, FALSE)
            /\ UNCHANGED <<dbOrders, dbNextId, now>>

\* PUT /:orderId/wine-status: the SELECT and the check of the target
ProdWineSelect(r, orderId, guestId, wineIndex, status, dbOk) ==
    /\ Receive(MaxProdReqs)
    /\ IsFree(r)
    /\ UNCHANGED <<mapVars, fbVars, env, sockets, events, dbOrders, dbNextId, now>>
    /\ LET target == Target(guestId, wineIndex, status)
       IN IF ~ dbOk
          THEN /\ last' = Response("wine", orderId, target, 500, NoOrder, FALSE)
               /\ UNCHANGED reqs
          ELSE IF RowsWithId(dbOrders, orderId) = {}
          THEN /\ last' = Response("wine", orderId, target, 404, NoOrder, FALSE)
               /\ UNCHANGED reqs
          ELSE LET row == dbOrders[CHOOSE i \in RowsWithId(dbOrders, orderId) : TRUE]
               IN IF HasSelection(row.selections, guestId, wineIndex)
                  THEN /\ reqs' = [reqs EXCEPT ![r] =
                                      [pc |-> "update", op |-> "wine", ident |-> orderId,
                                       target |-> target,
                                       selections |-> SetSelection(row.selections,
                                                         guestId, wineIndex, status)]]
                       /\ UNCHANGED last
                  ELSE /\ last' = Response("wine", orderId, target, 400, NoOrder, FALSE)
                       /\ UNCHANGED reqs

\* PUT /:orderId/wine-status: the UPDATE and the answer
ProdWineUpdate(r, dbOk) ==
    /\ reqs[r].pc = "update"
    /\ reqs' = [reqs EXCEPT ![r] = FreeSlot]
    /\ UNCHANGED <<mapVars, fbVars, env, sockets, events, dbNextId, nreq>>
    /\ IF dbOk
       THEN /\ dbOrders' = UpdateSelections(dbOrders, reqs[r].ident,
                                            reqs[r].selections, now + 1)
            /\ now' = now + 1
            /\ last' = Response("wine", reqs[r].ident, reqs[r].target, 200, NoOrder, TRUE)
       ELSE /\ last' = Response("wine", reqs[r].ident, reqs[r].target, 500, NoOrder, FALSE)
            /\ UNCHANGED <<dbOrders, now>>

\* lifecycle statuses a request may carry
LifecycleInputs == {"active", "completed", "cancelled", "bogus"}

\* PUT /:orderId/status
ProdSetStatus(orderId, status, dbOk) ==
    /\ Receive(MaxProdReqs)
    /\ UNCHANGED <<mapVars, fbVars, env, sockets, events, dbNextId, reqs>>
    /\ LET target == Target(Undefined, 0, status)
       IN IF status \notin {"active", "completed", "cancelled"}
          THEN /\ last' = Response("status", orderId, target, 400, NoOrder, FALSE)
               /\ UNCHANGED <<dbOrders, now>>
          ELSE IF dbOk
          THEN /\ dbOrders' = UpdateStatus(dbOrders, orderId, status, now + 1)
               /\ now' = now + 1
               /\ last' = Response("status", orderId, target, 200, NoOrder, TRUE)
          ELSE /\ last' = Response("status", orderId, target, 500, NoOrder, FALSE)
               /\ UNCHANGED <<dbOrders, now>>

NextProd ==
    \/ \E r \in Slots, name \in ProdNameInputs, body \in Payloads, dbOk \in BOOLEAN :
          ProdCreateCheck(r, name, body, dbOk)
    \/ \E r \in Slots, dbOk \in BOOLEAN : ProdCreateInsert(r, dbOk)
    \/ \E r \in Slots, orderId \in OrderIds, guestId \in GuestInputs,
          wineIndex \in WineIndexes, status \in StatusInputs, dbOk \in BOOLEAN :
            ProdWineSelect(r, orderId, guestId, wineIndex, status, dbOk)
    \/ \E r \in Slots, dbOk \in BOOLEAN : ProdWineUpdate(r, dbOk)
    \/ \E orderId \in OrderIds, status \in LifecycleInputs, dbOk \in BOOLEAN :
          ProdSetStatus(orderId, status, dbOk)

SpecProd == Init /\ [][NextProd]_vars

\* The creates of the router over order documents whose guest names and
\* selections each name any guests of DocGuestKeys.
DocGuestKeys == {"A", "B"}

DocPayloads ==
    { [guestNames |-> [g \in named |-> "Ann"],
       selections |-> [g \in selecting |-> <<Sel(1, "pending")>>]] :
        named \in SUBSET DocGuestKeys \ {{}},
        selecting \in SUBSET DocGuestKeys \ {{}} }

NextDoc ==
    \/ \E r \in Slots, name \in ProdNameInputs, body \in DocPayloads, dbOk \in BOOLEAN :
          ProdCreateCheck(r, name, body, dbOk)
    \/ \E r \in Slots, dbOk \in BOOLEAN : ProdCreateInsert(r, dbOk)

SpecDoc == Init /\ [][NextDoc]_vars

(***************************************************************************)
(* Properties of the production orders router.                             *)
(***************************************************************************)
\* the handler of slot r was started by this step
Arrived(r) == reqs[r].pc = "free" /\ reqs'[r].pc # "free"

ActiveWithSlug(rows, slug) ==
    { i \in DOMAIN rows : rows[i].status = "active" /\ Slug(rows[i].group_name) = slug }

\* C2: a create that arrives while an active order has the same group slug
\* ("T 5", then "t_5") is answered with Conflict and goes on to no insert.
C2_CreateUniqueness ==
    [][\A r \in Slots :
          (Arrived(r) /\ reqs'[r].op = "create")
              => ActiveWithSlug(dbOrders, Slug(reqs'[r].name)) = {}]_vars

\* C3: in every reachable state at most one active order has a given group
\* slug, also when the checks and inserts of two creates interleave.
C3_OneActivePerSlug ==
    \A i, j \in DOMAIN dbOrders :
        (/\ dbOrders[i].status = "active"
         /\ dbOrders[j].status = "active"
         /\ Slug(dbOrders[i].group_name) = Slug(dbOrders[j].group_name)) => i = j

\* C7: a selection update that arrives for an order that has been completed
\* or cancelled fails: it is not carried on to the write of the selections.
C7_TerminalStateGuard ==
    [][\A r \in Slots :
          (Arrived(r) /\ reqs'[r].op = "wine")
              => \A i \in RowsWithId(dbOrders, reqs'[r].ident) :
                    dbOrders[i].status = "active"]_vars

\* C8: the lifecycle is one-way: an order that has left active keeps the
\* status it has, it never becomes active again nor changes between
\* completed and cancelled.
C8_LifecycleOneWay ==
    [][\A i \in DOMAIN dbOrders :
          dbOrders[i].status # "active"
              => dbOrders'[i].status = dbOrders[i].status]_vars

(***************************************************************************)
(* The express server with socket.io (server.js).                          *)
(***************************************************************************)
\* winery ids of a create request; 0 is a missing winery id
WineryInputs == {1, 0}

\* the terminals of the wineries that connect to the server, connected or not
Terminals == {1, 2}

\* an event kept for every terminal, to be handed over when it connects
EventForAllTerminals(type, orderId, target, order) ==
    [type |-> type, orderId |-> orderId, target |-> target, order |-> order,
     to |-> Terminals]

\* io.emit(...): the event, and the sockets it is sent to: every connected one
Event(type, orderId, target, order) ==
    [type |-> type, orderId |-> orderId, target |-> target, order |-> order,
     to |-> sockets]

\* POST /api/orders: validation and the INSERT
SrvCreateInsert(r, wineryId, name, body, dbOk) ==
    /\ Receive(MaxSrvReqs)
    /\ IsFree(r)
    /\ Len(dbOrders) < MaxOrders
    /\ UNCHANGED <<mapVars, fbVars, env, sockets, events>>
    /\ IF wineryId = 0 \/ name = <<>>
       THEN /\ last' = Response("create", name, NoTarget, 400, NoOrder, FALSE)
            /\ UNCHANGED <<dbOrders, dbNextId, now, reqs>>
       ELSE IF ~ dbOk
       THEN /\ last' = Response("create", name, NoTarget, 500, NoOrder, FALSE)
            /\ UNCHANGED <<dbOrders, dbNextId, now, reqs>>
       ELSE LET row == [id |-> dbNextId, group_name |-> name,
                        guest_names |-> body.guestNames,
                        selections |-> body.selections,
                        status |-> "active", winery_id |-> wineryId,
                        created_at |-> now + 1, updated_at |-> now + 1]
            IN /\ dbOrders' = Append(dbOrders, row)
               /\ dbNextId' = dbNextId + 1
               /\ now' = now + 1
               /\ reqs' = [reqs EXCEPT ![r] = [pc |-> "emit", op |-> "create",
                                               name |-> name, order |-> row]]
               /\ UNCHANGED last

\* POST /api/orders: the notification and the answer
SrvCreateEmit(r, emitOk) ==
    /\ reqs[r].pc = "emit"
    /\ reqs[r].op = "create"
    /\ IF emitOk
       THEN /\ events' = Append(events,
                    Event("new_order", reqs[r].order.id, NoTarget, reqs[r].order))
            /\ last' = Response("create", reqs[r].name, NoTarget, 201, reqs[r].order, TRUE)
       ELSE \* io.emit throws inside the try: the catch answers 500
            /\ last' = Response("create", reqs[r].name, NoTarget, 500, NoOrder, FALSE)
            /\ UNCHANGED events
    /\ reqs' = [reqs EXCEPT ![r] = FreeSlot]
    /\ UNCHANGED <<mapVars, fbVars, env, sockets, dbOrders, dbNextId, now, nreq>>

\* PUT /api/orders/:orderId/status: validation, the SELECT, the check of the target
SrvUpdateSelect(r, orderId, guest, itemIndex, newStatus, dbOk) ==
    /\ Receive(MaxSrvReqs)
    /\ IsFree(r)
    /\ UNCHANGED <<mapVars, fbVars, env, sockets, events, dbOrders, dbNextId, now>>
    /\ LET target == Target(guest, itemIndex, newStatus)
       IN IF guest = Undefined \/ newStatus = Undefined
          THEN /\ last' = Response("update", orderId, target, 400, NoOrder, FALSE)
               /\ UNCHANGED reqs
          ELSE IF ~ dbOk
          THEN /\ last' = Response("update", orderId, target, 500, NoOrder, FALSE)
               /\ UNCHANGED reqs
          ELSE IF RowsWithId(dbOrders, orderId) = {}
          THEN /\ last' = Response("update", orderId, target, 404, NoOrder, FALSE)
               /\ UNCHANGED reqs
          ELSE LET row == dbOrders[CHOOSE i \in RowsWithId(dbOrders, orderId) : TRUE]
               IN IF HasSelection(row.selections, guest, itemIndex)
                  THEN /\ reqs' = [reqs EXCEPT ![r] =
                                      [pc |-> "update", op |-> "update", ident |-> orderId,
                                       target |-> target,
                                       selections |-> SetSelection(row.selections,
                                                         guest, itemIndex, newStatus)]]
                       /\ UNCHANGED last
                  ELSE /\ last' = Response("update", orderId, target, 400, NoOrder, FALSE)
                       /\ UNCHANGED reqs

\* the row an UPDATE ... RETURNING * hands back: rows[0]
Returning(rows, id) ==
    IF RowsWithId(rows, id) = {} THEN NoOrder
    ELSE rows[CHOOSE i \in RowsWithId(rows, id) : TRUE]

\* PUT /api/orders/:orderId/status: the UPDATE of the whole selections document
SrvUpdateWrite(r, dbOk) ==
    /\ reqs[r].pc = "update"
    /\ UNCHANGED <<mapVars, fbVars, env, sockets, events, dbNextId, nreq>>
    /\ IF dbOk
       THEN LET rows == UpdateSelections(dbOrders, reqs[r].ident,
                                         reqs[r].selections, now + 1)
            IN /\ dbOrders' = rows
               /\ now' = now + 1
               /\ reqs' = [reqs EXCEPT ![r] =
                              [pc |-> "emit", op |-> "update", ident |-> reqs[r].ident,
                               target |-> reqs[r].target,
                               order |-> Returning(rows, reqs[r].ident)]]
               /\ UNCHANGED last
       ELSE /\ last' = Response("update", reqs[r].ident, reqs[r].target, 500, NoOrder, FALSE)
            /\ reqs' = [reqs EXCEPT ![r] = FreeSlot]
            /\ UNCHANGED <<dbOrders, now>>

\* PUT /api/orders/:orderId/status: the notification and the answer
SrvUpdateEmit(r, emitOk) ==
    /\ reqs[r].pc = "emit"
    /\ reqs[r].op = "update"
    /\ IF emitOk
       THEN /\ events' = Append(events,
                    Event("status_update", reqs[r].ident, reqs[r].target, reqs[r].order))
            /\ last' = Response("update", reqs[r].ident, reqs[r].target, 200,
                                reqs[r].order, TRUE)
       ELSE \* io.emit throws inside the try: the catch answers 500
            /\ last' = Response("update", reqs[r].ident, reqs[r].target, 500,
                                NoOrder, FALSE)
            /\ UNCHANGED events
    /\ reqs' = [reqs EXCEPT ![r] = FreeSlot]
    /\ UNCHANGED <<mapVars, fbVars, env, sockets, dbOrders, dbNextId, now, nreq>>

NextSrv ==
    \/ \E r \in Slots, wineryId \in WineryInputs, name \in ProdNameInputs,
          body \in Payloads, dbOk \in BOOLEAN :
            SrvCreateInsert(r, wineryId, name, body, dbOk)
    \/ \E r \in Slots, emitOk \in BOOLEAN : SrvCreateEmit(r, emitOk)
    \/ \E r \in Slots, orderId \in OrderIds, guest \in GuestInputs,
          itemIndex \in WineIndexes, newStatus \in StatusInputs, dbOk \in BOOLEAN :
            SrvUpdateSelect(r, orderId, guest, itemIndex, newStatus, dbOk)
    \/ \E r \in Slots, dbOk \in BOOLEAN : SrvUpdateWrite(r, dbOk)
    \/ \E r \in Slots, emitOk \in BOOLEAN : SrvUpdateEmit(r, emitOk)

SpecSrv == Init /\ [][NextSrv]_vars

\* the wineries whose staff terminals connect to the server
SocketWineries == Terminals

\* io.on('connection'): the terminal of winery w connects; it joins no room
SrvConnect(w) ==
    /\ w \notin sockets
    /\ sockets' = sockets \cup {w}
    /\ UNCHANGED <<mapVars, fbVars, env, events, dbOrders, dbNextId, now, reqs, last, nreq>>

\* socket.on('disconnect'): the terminal of winery w is gone
SrvDisconnect(w) ==
    /\ w \in sockets
    /\ sockets' = sockets \ {w}
    /\ UNCHANGED <<mapVars, fbVars, env, events, dbOrders, dbNextId, now, reqs, last, nreq>>

\* group names, guest keys and statuses of the requests the terminals send
IoNameInputs == { <<"T", " ", "5">> }

IoGuestInputs == {"A", "B"}

IoStatusInputs == {"servi", "bogus"}

\* the server with staff terminals connecting and disconnecting, its requests
\* delivered one after the other
NextIo ==
    \/ \E r \in Slots, wineryId \in WineryInputs, name \in IoNameInputs,
          body \in Payloads, dbOk \in BOOLEAN :
            Idle /\ SrvCreateInsert(r, wineryId, name, body, dbOk)
    \/ \E r \in Slots, emitOk \in BOOLEAN : SrvCreateEmit(r, emitOk)
    \/ \E r \in Slots, orderId \in OrderIds, guest \in IoGuestInputs,
          itemIndex \in WineIndexes, newStatus \in IoStatusInputs, dbOk \in BOOLEAN :
            Idle /\ SrvUpdateSelect(r, orderId, guest, itemIndex, newStatus, dbOk)
    \/ \E r \in Slots, dbOk \in BOOLEAN : SrvUpdateWrite(r, dbOk)
    \/ \E r \in Slots, emitOk \in BOOLEAN : SrvUpdateEmit(r, emitOk)
    \/ \E w \in SocketWineries : SrvConnect(w)
    \/ \E w \in SocketWineries : SrvDisconnect(w)

SpecIo == Init /\ [][NextIo]_vars

(***************************************************************************)
(* Properties of the express server.                                       *)
(***************************************************************************)
StatusUpdates == { k \in DOMAIN events : events[k].type = "status_update" }

\* no other acknowledged status update addresses the selection of event k
OnlyUpdateOfItsSelection(k) ==
    \A m \in StatusUpdates :
        (/\ events[m].orderId = events[k].orderId
         /\ events[m].target.guest = events[k].target.guest
         /\ events[m].target.index = events[k].target.index) => m = k

\* C1: no lost update: once the status updates of different selections of an
\* order (guest A's and guest B's) have all completed, whatever the
\* interleaving of their reads and writes, the stored order carries the new
\* status of each of them.
C1_NoLostUpdate ==
    Idle =>
        \A k \in StatusUpdates :
            OnlyUpdateOfItsSelection(k) =>
                \A i \in RowsWithId(dbOrders, events[k].orderId) :
                    dbOrders[i].selections[events[k].target.guest]
                            [events[k].target.index + 1].status
                        = events[k].target.status

(***************************************************************************)
(* The uuid orders router (routes/orders.js).                              *)
(*                                                                         *)
(* The router creates no table.  config/database.js declares orders with   *)
(* id UUID and JSONB documents, but nothing under src/ calls its           *)
(* initialize(), so the table may as well be an older one with text        *)
(* columns: env.schema.  Likewise app.get('io') is set by the mounting     *)
(* application or not at all: env.io.                                      *)
(***************************************************************************)
\* uuidv4(): a fresh id for every create
RtUuid(n) == <<"u", DigitOf[n]>>

IsUuid(s) == Len(s) = 2 /\ s[1] = "u"

\* WHERE id = $1 on a UUID column raises on a parameter that is no uuid
IdQueryRaises(identifier) == env.schema = "jsonb" /\ ~ IsUuid(identifier)

\* what the driver hands back for a document column: the parsed object for
\* JSONB, the stored JSON text for a text column
Column(doc) == IF env.schema = "jsonb" THEN doc ELSE [text |-> doc]

ParseError == [error |-> "SyntaxError"]

\* JSON.parse: of a JSON text its value, of an object a SyntaxError
JsonParse(x) == IF DOMAIN x = {"text"} THEN x.text ELSE ParseError

RowsWithName(rows, name) == { i \in DOMAIN rows : rows[i].group_name = name }

\* the query with its order turned round: ORDER BY created_at ASC LIMIT 1
OldestByName(rows, name) ==
    IF RowsWithName(rows, name) = {} THEN NoOrder
    ELSE rows[CHOOSE i \in RowsWithName(rows, name) :
                 \A j \in RowsWithName(rows, name) :
                     rows[i].created_at <= rows[j].created_at]

\* SELECT * FROM orders WHERE group_name = $1 ORDER BY created_at DESC LIMIT 1
LatestByName(rows, name) ==
    IF RowsWithName(rows, name) = {} THEN NoOrder
    ELSE rows[CHOOSE i \in RowsWithName(rows, name) :
                 \A j \in RowsWithName(rows, name) :
                     rows[j].created_at <= rows[i].created_at]

\* SELECT * FROM orders WHERE id = $1
FindById(rows, id) ==
    IF RowsWithId(rows, id) = {} THEN NoOrder
    ELSE rows[CHOOSE i \in RowsWithId(rows, id) : TRUE]

\* the PUT routes of the router, in the order they are registered
PutRoutes ==
    << [pattern |-> <<":groupName", "status">>, handler |-> "byGroupName"],
       [pattern |-> <<":orderId", "status">>, handler |-> "byOrderId"] >>

IsParam(segment) == segment \in {":groupName", ":orderId"}

\* a path matches a pattern segment by segment, a parameter matches any segment
Matches(pattern, path) ==
    /\ Len(pattern) = Len(path)
    /\ \A k \in DOMAIN pattern : IsParam(pattern[k]) \/ <<pattern[k]>> = path[k]

\* express hands the request to the first registered route that matches
Dispatch(routes, path) ==
    LET hits == { k \in DOMAIN routes : Matches(routes[k].pattern, path) }
    IN routes[CHOOSE k \in hits : \A m \in hits : k <= m].handler

\* POST /: the INSERT
RtCreateInsert(r, name, body, wineryId, dbOk) ==
    /\ Receive(MaxRtReqs)
    /\ IsFree(r)
    /\ Len(dbOrders) < MaxOrders
    /\ UNCHANGED <<mapVars, fbVars, env, sockets, events>>
    /\ IF ~ dbOk \/ name = <<>>
       THEN /\ last' = Response("create", name, NoTarget, 500, NoOrder, FALSE)
            /\ UNCHANGED <<dbOrders, dbNextId, now, reqs>>
       ELSE LET row == [id |-> RtUuid(dbNextId), group_name |-> name,
                        guest_names |-> body.guestNames,
                        selections |-> body.selections,
                        status |-> "active",
                        winery_id |-> IF wineryId = 0 THEN 1 ELSE wineryId,
                        created_at |-> now + 1, updated_at |-> now + 1]
            IN /\ dbOrders' = Append(dbOrders, row)
               /\ dbNextId' = dbNextId + 1
               /\ now' = now + 1
               /\ reqs' = [reqs EXCEPT ![r] = [pc |-> "emit", op |-> "create",
                                               name |-> name, order |-> row]]
               /\ UNCHANGED last

\* POST /: the notification, if io is attached, and the answer
RtCreateEmit(r) ==
    /\ reqs[r].pc = "emit"
    /\ reqs[r].op = "create"
    /\ events' = IF env.io
                 THEN Append(events,
                         Event("newOrder", reqs[r].order.id, NoTarget, reqs[r].order))
                 ELSE events
    /\ last' = Response("create", reqs[r].name, NoTarget, 201, reqs[r].order, TRUE)
    /\ reqs' = [reqs EXCEPT ![r] = FreeSlot]
    /\ UNCHANGED <<mapVars, fbVars, env, sockets, dbOrders, dbNextId, now, nreq>>

\* PUT /:param/status, up to the UPDATE: the route express picks, its SELECT,
\* JSON.parse of the selections and the check of the target
RtPutStatus(r, param, guest, wineIndex, newStatus, dbOk) ==
    /\ Receive(MaxRtReqs)
    /\ IsFree(r)
    /\ UNCHANGED <<mapVars, fbVars, env, sockets, events, dbOrders, dbNextId, now>>
    /\ LET target == Target(guest, wineIndex, newStatus)
           handler == Dispatch(PutRoutes, << <<param>>, <<"status">> >>)
           order == IF handler = "byGroupName" THEN LatestByName(dbOrders, param)
                    ELSE FindById(dbOrders, param)
           raises == ~ dbOk \/ (handler = "byOrderId" /\ IdQueryRaises(param))
       IN IF raises
          THEN /\ last' = Response("PUT", param, target, 500, NoOrder, FALSE)
               /\ UNCHANGED reqs
          ELSE IF order = NoOrder
          THEN /\ last' = Response("PUT", param, target, 404, NoOrder, FALSE)
               /\ UNCHANGED reqs
          ELSE LET selections == JsonParse(Column(order.selections))
               IN IF selections = ParseError
                  THEN /\ last' = Response("PUT", param, target, 500, NoOrder, FALSE)
                       /\ UNCHANGED reqs
                  ELSE IF HasSelection(selections, guest, wineIndex)
                  THEN /\ reqs' = [reqs EXCEPT ![r] =
                                      [pc |-> "update", op |-> handler, ident |-> param,
                                       orderId |-> order.id, target |-> target,
                                       selections |-> SetSelection(selections,
                                                         guest, wineIndex, newStatus)]]
                       /\ UNCHANGED last
                  ELSE IF handler = "byGroupName"
                  THEN /\ last' = Response("PUT", param, target, 400, NoOrder, FALSE)
                       /\ UNCHANGED reqs
                  ELSE /\ reqs' = [reqs EXCEPT ![r] =
                                      [pc |-> "update", op |-> handler, ident |-> param,
                                       orderId |-> order.id, target |-> target,
                                       selections |-> selections]]
                       /\ UNCHANGED last

\* PUT /:param/status: the UPDATE, the notification and the answer
RtPutWrite(r, dbOk) ==
    /\ reqs[r].pc = "update"
    /\ reqs' = [reqs EXCEPT ![r] = FreeSlot]
    /\ UNCHANGED <<mapVars, fbVars, env, sockets, dbNextId, nreq>>
    /\ IF dbOk
       THEN LET rows == UpdateSelections(dbOrders, reqs[r].orderId,
                                         reqs[r].selections, now + 1)
                order == Returning(rows, reqs[r].orderId)
            IN /\ dbOrders' = rows
               /\ now' = now + 1
               /\ events' = IF env.io
                            THEN Append(events, Event("orderUpdate", reqs[r].orderId,
                                                      reqs[r].target, order))
                            ELSE events
               /\ last' = Response("PUT", reqs[r].ident, reqs[r].target, 200, order, TRUE)
       ELSE /\ last' = Response("PUT", reqs[r].ident, reqs[r].target, 500, NoOrder, FALSE)
            /\ UNCHANGED <<dbOrders, now, events>>

\* GET /:orderId
RtGetOrder(orderId, dbOk) ==
    /\ Receive(MaxRtReqs)
    /\ UNCHANGED <<mapVars, pgVars>>
    /\ last' = IF ~ dbOk \/ IdQueryRaises(orderId)
               THEN Response("GET", orderId, NoTarget, 500, NoOrder, FALSE)
               ELSE IF FindById(dbOrders, orderId) = NoOrder
               THEN Response("GET", orderId, NoTarget, 404, NoOrder, FALSE)
               ELSE Response("GET", orderId, NoTarget, 200,
                             FindById(dbOrders, orderId), TRUE)

\* GET /group/:groupName
RtGetGroup(name, dbOk) ==
    /\ Receive(MaxRtReqs)
    /\ UNCHANGED <<mapVars, pgVars>>
    /\ LET order == LatestByName(dbOrders, name)
       IN last' = IF ~ dbOk
                  THEN Response("GETGROUP", name, NoTarget, 500, NoOrder, FALSE)
                  ELSE IF order = NoOrder
                  THEN Response("GETGROUP", name, NoTarget, 404, NoOrder, FALSE)
                  ELSE IF \/ JsonParse(Column(order.guest_names)) = ParseError
                          \/ JsonParse(Column(order.selections)) = ParseError
                  THEN Response("GETGROUP", name, NoTarget, 500, NoOrder, FALSE)
                  ELSE Response("GETGROUP", name, NoTarget, 200, order, TRUE)

\* identifiers a caller may put in the URL
RtIdents == { RtUuid(n) : n \in 1 .. MaxOrders } \cup GroupNames \cup {UnknownIdent}

InitRt ==
    /\ mapOrders = <<>>
    /\ mapGroups = <<>>
    /\ dbOrders = <<>>
    /\ dbNextId = 1
    /\ now = 0
    /\ reqs = [r \in Slots |-> FreeSlot]
    /\ dbGroups = <<>>
    /\ memOrders = <<>>
    /\ memGroups = <<>>
    /\ events = <<>>
    /\ env \in [schema : {"jsonb", "text"}, io : BOOLEAN]
    /\ sockets = {}
    /\ last = NoRequest
    /\ nreq = 0

NextRt ==
    \/ \E r \in Slots, name \in ProdNameInputs, body \in Payloads,
          wineryId \in WineryInputs, dbOk \in BOOLEAN :
            RtCreateInsert(r, name, body, wineryId, dbOk)
    \/ \E r \in Slots : RtCreateEmit(r)
    \/ \E r \in Slots, param \in RtIdents, guest \in GuestInputs,
          wineIndex \in WineIndexes, newStatus \in StatusInputs, dbOk \in BOOLEAN :
            RtPutStatus(r, param, guest, wineIndex, newStatus, dbOk)
    \/ \E r \in Slots, dbOk \in BOOLEAN : RtPutWrite(r, dbOk)
    \/ \E orderId \in RtIdents, dbOk \in BOOLEAN : RtGetOrder(orderId, dbOk)
    \/ \E name \in RtIdents, dbOk \in BOOLEAN : RtGetGroup(name, dbOk)

SpecRt == InitRt /\ [][NextRt]_vars

(***************************************************************************)
(* Properties of the uuid orders router.                                   *)
(***************************************************************************)
\* the order the read paths answer for an identifier: GET /:orderId, then
\* GET /group/:groupName
RtReadPath(rows, identifier) ==
    IF FindById(rows, identifier) # NoOrder THEN FindById(rows, identifier)
    ELSE LatestByName(rows, identifier)

\* C5: the status-update path addresses, for every identifier, the order the
\* read path resolves it to, or answers NotFound where the read path finds
\* none; a status update addressed by the id of a stored order reaches that
\* order.
C5_UpdateResolvesAsRead ==
    [][/\ (last' # last /\ last'.op = "PUT" /\ last'.code = 404)
             => RtReadPath(dbOrders, last'.ident) = NoOrder
       /\ \A r \in Slots :
             (Arrived(r) /\ reqs'[r].pc = "update")
                 => reqs'[r].orderId = RtReadPath(dbOrders, reqs'[r].ident).id]_vars

(***************************************************************************)
(* The pg server with the in-memory fallback (part_000, second file).      *)
(***************************************************************************)
\* Date.now() of the fallback ids counts milliseconds of the epoch
EpochMs == 1000

\* the catch branch of POST /api/orders: the order goes to the arrays
FbFallback(name, body, time) ==
    /\ memOrders' = Append(memOrders,
                       [id |-> EpochMs + time, groupName |-> name,
                        guestNames |-> body.guestNames,
                        selections |-> body.selections,
                        timestamp |-> time, status |-> "active"])
    /\ memGroups' = IF \E k \in DOMAIN memGroups : memGroups[k].name = name
                    THEN memGroups
                    ELSE Append(memGroups,
                            [name |-> name, timestamp |-> time, status |-> "active",
                             guestCount |-> GuestCount(body.guestNames)])
    /\ now' = time
    /\ last' = Response("create", name, NoTarget, 200,
                        [orderId |-> EpochMs + time, fallback |-> TRUE], TRUE)

\* INSERT INTO groups ... ON CONFLICT (name) DO UPDATE SET guest_count, created_at
UpsertGroup(rows, name, count, time) ==
    IF \E k \in DOMAIN rows : rows[k].name = name
    THEN [k \in DOMAIN rows |->
             IF rows[k].name = name
             THEN [rows[k] EXCEPT !.guest_count = count, !.created_at = time]
             ELSE rows[k]]
    ELSE Append(rows, [name |-> name, guest_count |-> count, status |-> "active",
                       created_at |-> time])

\* POST /api/orders: the INSERT into orders, or the fallback when it fails
FbCreateInsert(r, name, body, tick, dbOk) ==
    /\ Receive(MaxFbReqs)
    /\ IsFree(r)
    /\ Len(dbOrders) + Len(memOrders) < MaxOrders
    /\ UNCHANGED <<mapVars, env, sockets, events, dbGroups>>
    /\ IF dbOk /\ name # <<>>
       THEN /\ dbOrders' = Append(dbOrders,
                              [id |-> dbNextId, group_name |-> name,
                               guest_names |-> body.guestNames,
                               selections |-> body.selections,
                               created_at |-> now + 1, status |-> "active"])
            /\ dbNextId' = dbNextId + 1
            /\ now' = now + 1
            /\ reqs' = [reqs EXCEPT ![r] = [pc |-> "group", op |-> "create",
                                            name |-> name, body |-> body,
                                            orderId |-> dbNextId,
                                            timestamp |-> now + 1]]
            /\ UNCHANGED <<last, memOrders, memGroups>>
       ELSE /\ FbFallback(name, body, now + tick)
            /\ UNCHANGED <<dbOrders, dbNextId, reqs>>

\* POST /api/orders: the upsert into groups, or the fallback when it fails
FbCreateGroup(r, tick, dbOk) ==
    /\ reqs[r].pc = "group"
    /\ reqs' = [reqs EXCEPT ![r] = FreeSlot]
    /\ UNCHANGED <<mapVars, env, sockets, events, dbOrders, dbNextId, nreq>>
    /\ IF dbOk
       THEN /\ dbGroups' = UpsertGroup(dbGroups, reqs[r].name,
                                       GuestCount(reqs[r].body.guestNames), now + 1)
            /\ now' = now + 1
            /\ last' = Response("create", reqs[r].name, NoTarget, 200,
                                [orderId |-> reqs[r].orderId,
                                 timestamp |-> reqs[r].timestamp], TRUE)
            /\ UNCHANGED <<memOrders, memGroups>>
       ELSE /\ FbFallback(reqs[r].name, reqs[r].body, now + tick)
            /\ UNCHANGED dbGroups

\* the toggle that answers every status request, whatever status it carries
ToggleStatusPendingOnly(currentStatus) ==
    IF currentStatus = "pending" THEN "servi" ELSE "non-servi"

\* (currentStatus === 'non-servi' || currentStatus === 'pending') ? 'servi' : 'non-servi'
ToggleStatus(currentStatus) ==
    IF currentStatus = "non-servi" \/ currentStatus = "pending"
    THEN "servi" ELSE "non-servi"

\* UPDATE orders SET selections = $1 WHERE id = $2
UpdateSelectionsOnly(rows, id, selections) ==
    [i \in DOMAIN rows |->
        IF rows[i].id = id THEN [rows[i] EXCEPT !.selections = selections]
        ELSE rows[i]]

\* guest keys of a status request
FbGuestInputs == {"A", "B"}

\* PUT /api/orders/:id/status: the SELECT, the check of the target, the toggle
FbToggleSelect(r, orderId, guest, wineIndex, status, dbOk) ==
    /\ Receive(MaxFbReqs)
    /\ IsFree(r)
    /\ UNCHANGED <<mapVars, fbVars, env, sockets, events, dbOrders, dbNextId, now>>
    /\ LET target == Target(guest, wineIndex, status)
       IN IF ~ dbOk
          THEN /\ last' = Response("toggle", orderId, target, 500, NoOrder, FALSE)
               /\ UNCHANGED reqs
          ELSE IF RowsWithId(dbOrders, orderId) = {}
          THEN /\ last' = Response("toggle", orderId, target, 404, NoOrder, FALSE)
               /\ UNCHANGED reqs
          ELSE LET selections == FindById(dbOrders, orderId).selections
               IN IF HasSelection(selections, guest, wineIndex)
                  THEN LET newStatus ==
                               ToggleStatus(selections[guest][wineIndex + 1].status)
                       IN /\ reqs' = [reqs EXCEPT ![r] =
                                         [pc |-> "update", op |-> "toggle",
                                          ident |-> orderId, target |-> target,
                                          newStatus |-> newStatus,
                                          selections |-> SetSelection(selections,
                                                            guest, wineIndex, newStatus)]]
                          /\ UNCHANGED last
                  ELSE /\ last' = Response("toggle", orderId, target, 400, NoOrder, FALSE)
                       /\ UNCHANGED reqs

\* PUT /api/orders/:id/status: the UPDATE and the answer
FbToggleWrite(r, dbOk) ==
    /\ reqs[r].pc = "update"
    /\ reqs' = [reqs EXCEPT ![r] = FreeSlot]
    /\ UNCHANGED <<mapVars, fbVars, env, sockets, events, dbNextId, now, nreq>>
    /\ IF dbOk
       THEN /\ dbOrders' = UpdateSelectionsOnly(dbOrders, reqs[r].ident,
                                                reqs[r].selections)
            /\ last' = Response("toggle", reqs[r].ident, reqs[r].target, 200,
                                [newStatus |-> reqs[r].newStatus], TRUE)
       ELSE /\ last' = Response("toggle", reqs[r].ident, reqs[r].target, 500,
                                NoOrder, FALSE)
            /\ UNCHANGED dbOrders

\* orders.find(o => o.id === orderId): the first element, or undefined
MemFind(os, id) ==
    IF \E k \in DOMAIN os : os[k].id = id
    THEN os[CHOOSE k \in DOMAIN os : os[k].id = id /\ \A j \in 1 .. (k - 1) : os[j].id # id]
    ELSE NoOrder

\* GET /api/orders/:id: the row of the table, or the fallback when the query fails
FbGetOrder(orderId, dbOk) ==
    /\ Receive(MaxFbReqs)
    /\ UNCHANGED <<mapVars, pgVars>>
    /\ LET order == IF dbOk THEN FindById(dbOrders, orderId)
                    ELSE MemFind(memOrders, orderId)
       IN last' = Response("get", orderId, NoTarget, 200, order, order # NoOrder)

\* GET /api/groups: the rows of the table, or the fallback when the query fails
FbGetGroups(dbOk) ==
    /\ Receive(MaxFbReqs)
    /\ UNCHANGED <<mapVars, pgVars>>
    /\ last' = Response("groups", <<>>, NoTarget, 200,
                        [groups |-> IF dbOk THEN dbGroups ELSE memGroups], TRUE)

\* group names of a create request; <<>> is a missing group name
FbNameInputs == { <<"T", " ", "5">>, <<>> }

\* ids of a read: those of the table, and those Date.now() gives the fallback
FbOrderIds == OrderIds \cup { EpochMs + t : t \in 0 .. 1 }

\* statuses a status request may carry as the status it intends
FbStatusInputs == {"servi", "non-servi"}

NextFb ==
    \/ \E r \in Slots, name \in FbNameInputs, body \in Payloads,
          tick \in {0, 1}, dbOk \in BOOLEAN :
            FbCreateInsert(r, name, body, tick, dbOk)
    \/ \E r \in Slots, tick \in {0, 1}, dbOk \in BOOLEAN : FbCreateGroup(r, tick, dbOk)
    \/ \E r \in Slots, orderId \in OrderIds, guest \in FbGuestInputs,
          wineIndex \in WineIndexes, status \in FbStatusInputs, dbOk \in BOOLEAN :
            FbToggleSelect(r, orderId, guest, wineIndex, status, dbOk)
    \/ \E r \in Slots, dbOk \in BOOLEAN : FbToggleWrite(r, dbOk)
    \/ \E orderId \in FbOrderIds, dbOk \in BOOLEAN : FbGetOrder(orderId, dbOk)
    \/ \E dbOk \in BOOLEAN : FbGetGroups(dbOk)

SpecFb == Init /\ [][NextFb]_vars

\* the requests are delivered one after the other: a request arrives only
\* after the one before it has been answered
NextFbSeq ==
    \/ \E r \in Slots, name \in FbNameInputs, body \in Payloads,
          tick \in {0, 1}, dbOk \in BOOLEAN :
            Idle /\ FbCreateInsert(r, name, body, tick, dbOk)
    \/ \E r \in Slots, tick \in {0, 1}, dbOk \in BOOLEAN : FbCreateGroup(r, tick, dbOk)
    \/ \E r \in Slots, orderId \in OrderIds, guest \in FbGuestInputs,
          wineIndex \in WineIndexes, status \in FbStatusInputs, dbOk \in BOOLEAN :
            Idle /\ FbToggleSelect(r, orderId, guest, wineIndex, status, dbOk)
    \/ \E r \in Slots, dbOk \in BOOLEAN : FbToggleWrite(r, dbOk)

SpecFbSeq == Init /\ [][NextFbSeq]_vars

(***************************************************************************)
(* Properties of the pg server with fallback.                              *)
(***************************************************************************)
\* the handler of slot r has written its toggle and answered success
ToggleWritten(r) ==
    /\ reqs[r].pc = "update"
    /\ reqs[r].op = "toggle"
    /\ reqs'[r].pc = "free"
    /\ last'.code = 200

\* the stored status of the selection a status request addresses
StoredStatus(rows, id, target) ==
    FindById(rows, id).selections[target.guest][target.index + 1].status

\* what a toggle makes of a serving status
Toggled == ("pending" :> "servi") @@ ("servi" :> "non-servi") @@ ("non-servi" :> "servi")

\* C9: toggles applied one after the other turn servi into non-servi and
\* both pending and non-servi into servi, so a pending selection is servi
\* after one toggle, non-servi after two and servi after three.
C9_ToggleSemantics ==
    [][\A r \in Slots :
          (/\ ToggleWritten(r)
           /\ StoredStatus(dbOrders, reqs[r].ident, reqs[r].target) \in DOMAIN Toggled)
              => StoredStatus(dbOrders', reqs[r].ident, reqs[r].target)
                    = Toggled[StoredStatus(dbOrders, reqs[r].ident, reqs[r].target)]]_vars

\* C9 witness: guest A's selection, created pending, stands at non-servi after
\* two toggles and the third toggle has read it and is writing servi
C9_Witness ==
    \E r \in Slots :
        /\ reqs[r].pc = "update"
        /\ reqs[r].op = "toggle"
        /\ reqs[r].target.guest = "A"
        /\ reqs[r].newStatus = "servi"
        /\ "B" \in DOMAIN FindById(dbOrders, reqs[r].ident).selections
        /\ StoredStatus(dbOrders, reqs[r].ident, reqs[r].target) = "non-servi"

\* C10: a toggle request delivered a second time (same order, guest, index
\* and intended status as the request answered just before it) leaves the
\* selection at the status the first delivery gave it.
C10_ToggleIdempotent ==
    [][\A r \in Slots :
          (/\ ToggleWritten(r)
           /\ last.op = "toggle"
           /\ last.code = 200
           /\ last.ident = reqs[r].ident
           /\ last.target = reqs[r].target)
              => StoredStatus(dbOrders', reqs[r].ident, reqs[r].target)
                    = StoredStatus(dbOrders, reqs[r].ident, reqs[r].target)]_vars

\* C11: a status request that carries an explicit status leaves the selection
\* it addresses at that status whatever the status before, so two requests
\* in a row that carry servi leave it at servi both times.
C11_ExplicitStatusSet ==
    [][\A r \in Slots :
          (ToggleWritten(r) /\ reqs[r].target.status \in FbStatusInputs)
              => StoredStatus(dbOrders', reqs[r].ident, reqs[r].target)
                    = reqs[r].target.status]_vars

(***************************************************************************)
(* Notifications.                                                          *)
(***************************************************************************)
\* the id of the order a successful answer is about
AnsweredOrderId ==
    IF last.op = "create" THEN last.order.id ELSE last.ident

\* C12: once a create, a selection-status update or a lifecycle transition
\* has been answered as a success, an event that carries the order of that
\* mutation has been emitted.
C12_MutationAnnounced ==
    (/\ last.success
     /\ last.op \in {"create", "wine", "status"}
     /\ RowsWithId(dbOrders, AnsweredOrderId) # {})
        => \E k \in DOMAIN events :
              /\ events[k].order # NoOrder
              /\ events[k].order.id = AnsweredOrderId

\* C13: the events about one order are emitted, and so received by every
\* connected terminal, in the order in which their mutations were committed:
\* an earlier event carries the earlier commit time (updated_at).
C13_EventsInCommitOrder ==
    \A i, j \in DOMAIN events :
        (i < j /\ events[i].orderId = events[j].orderId)
            => events[i].order.updated_at < events[j].order.updated_at

\* the handler of slot r, whose store write has succeeded, answers by this step
AnsweredAfterWrite(r) == reqs[r].pc = "emit" /\ reqs'[r].pc = "free"

\* C14: a create or update whose store write has succeeded keeps what it
\* wrote and is answered as a success, also when publishing its event fails.
C14_PublishFailureKept ==
    [][\A r \in Slots :
          AnsweredAfterWrite(r) => (last'.success /\ dbOrders' = dbOrders)]_vars

(***************************************************************************)
(* Durability and the fallback arrays.                                     *)
(***************************************************************************)
\* C15: no silent volatile fallback: no order is ever recorded in the
\* in-memory arrays, a create answered as a success has its order in the
\* orders table, and a read that answers an order answers a row of the table.
C15_NoVolatileFallback ==
    /\ memOrders = <<>>
    /\ (last.op = "create" /\ last.success)
          => RowsWithId(dbOrders, last.order.orderId) # {}
    /\ (last.op = "get" /\ last.success) => "group_name" \in DOMAIN last.order

\* the create of slot r returns by this step, its write of the group record
\* having failed after its write of the order record had succeeded
GroupWriteFailed(r) ==
    /\ reqs[r].pc = "group"
    /\ reqs'[r].pc = "free"
    /\ dbGroups' = dbGroups

\* C16: create is all-or-nothing: when the group write of a create fails, no
\* record of the new order is left behind, neither in the orders table nor
\* in the arrays.
C16_CreateAllOrNothing ==
    [][\A r \in Slots :
          GroupWriteFailed(r)
              => /\ RowsWithId(dbOrders', reqs[r].orderId) = {}
                 /\ memOrders' = memOrders]_vars

(***************************************************************************)
(* The group summary.                                                      *)
(***************************************************************************)
\* the guest keys of an order whose display name is not empty
NamedGuests(order) == { g \in DOMAIN order.guestNames : order.guestNames[g] # "" }

\* the selection records of an order, over all its guests
SelectionRecords(order) ==
    UNION { { <<g, i>> : i \in DOMAIN order.selections[g] } :
              g \in DOMAIN order.selections }

\* C17: every element of the group listing has guestCount equal to the
\* number of guest keys of its order with a non-empty display name and
\* wineCount equal to the number of selection records of its order over all
\* guests (3 guests, one unnamed, selections of sizes 2, 1, 3: 2 and 6).
C17_AggregationCorrect ==
    last.op = "groups" =>
        \A k \in DOMAIN last.order.groups :
            LET g == last.order.groups[k]
                order == MapGet(mapOrders, g.orderId)
            IN /\ g.guestCount = Cardinality(NamedGuests(order))
               /\ g.wineCount = Cardinality(SelectionRecords(order))

\* a group listing is answered by this step
GroupsListed == last'.op = "groups" /\ nreq' # nreq

\* the guest count a listed group record reports
ListedCount(g) == IF "guest_count" \in DOMAIN g THEN g.guest_count ELSE g.guestCount

\* the guest names of the order a listed group record denotes: the latest
\* order of that group name, in the store the record was read from
DenotedGuestNames(g) ==
    IF "guest_count" \in DOMAIN g
    THEN LET hits == { i \in DOMAIN dbOrders : dbOrders[i].group_name = g.name }
         IN dbOrders[CHOOSE i \in hits : \A j \in hits : j <= i].guest_names
    ELSE LET hits == { i \in DOMAIN memOrders : memOrders[i].groupName = g.name }
         IN memOrders[CHOOSE i \in hits : \A j \in hits : j <= i].guestNames

\* C18: the guest count that the group listing reports for a group equals
\* the count of the guest keys of the order the group denotes at that moment.
C18_SummaryAgreesWithOrder ==
    [][GroupsListed =>
          \A k \in DOMAIN last'.order.groups :
              ListedCount(last'.order.groups[k])
                  = Cardinality(DOMAIN DenotedGuestNames(last'.order.groups[k]))]_vars

\* C19: order ids are unique: no two orders of the arrays have the same id,
\* also when two creates are handled at the same clock value.
C19_IdsUnique ==
    \A i, j \in DOMAIN memOrders : memOrders[i].id = memOrders[j].id => i = j

\* C20: fan-out is scoped by winery: an event about an order is sent only to
\* terminals of the winery of that order.
C20_FanoutScopedByWinery ==
    \A k \in DOMAIN events :
        \A w \in events[k].to : events[k].order.winery_id = w

(***************************************************************************)
(* Delivery to the terminals.                                              *)
(***************************************************************************)
\* C21: delivery is at most once and without replay: an emit sends one event,
\* to the terminals connected at that moment only, and what has been sent is
\* never sent again nor to anyone else, so a terminal that connects later
\* does not receive it.
C21_AtMostOnceNoReplay ==
    [][/\ Len(events') <= Len(events) + 1
       /\ \A k \in DOMAIN events' :
             IF k \in DOMAIN events
             THEN events'[k] = events[k]
             ELSE events'[k].to \subseteq sockets]_vars

\* C21 witness: an event has been received by a connected terminal, and a
\* terminal that is connected now has not received it
C21_Witness ==
    \E k \in DOMAIN events, w \in sockets :
        events[k].to # {} /\ w \notin events[k].to

(***************************************************************************)
(* The order document.                                                     *)
(***************************************************************************)
\* the serving statuses of a selection record
SelectionStatuses == {"pending", "servi", "non-servi"}

\* the handler of slot r has written the selections of its status update
SelectionsWritten(r) ==
    /\ reqs[r].pc = "update"
    /\ reqs'[r].pc = "emit"

\* C22: a status update stores no status other than pending, servi and
\* non-servi: the selection it has written carries one of the three.
C22_StatusInDomain ==
    [][\A r \in Slots :
          SelectionsWritten(r)
              => StoredStatus(dbOrders', reqs[r].ident, reqs[r].target)
                    \in SelectionStatuses]_vars

\* a create of the Map server is answered by this step
MapCreated == last'.op = "POST" /\ nreq' # nreq

\* C23: a successful create stores an order with status active in which the
\* selection records submitted without a status have status pending (the
\* order documents submitted here carry pending or no status at all, so
\* every stored record is to be pending).
C23_CreateDefaultsPending ==
    [][MapCreated =>
          LET order == MapGet(mapOrders', last'.ident)
          IN /\ order.status = "active"
             /\ \A g \in DOMAIN order.selections :
                   \A i \in DOMAIN order.selections[g] :
                       order.selections[g][i].status = "pending"]_vars

\* C24: in every reachable state every guest key of the selections of a
\* stored order is a guest key of its guest names.
C24_SelectionGuestsNamed ==
    \A i \in DOMAIN dbOrders :
        DOMAIN dbOrders[i].selections \subseteq DOMAIN dbOrders[i].guest_names

\* what is fixed at the creation of an order row: its id, group name and
\* guest names, and the guests, number, order and wines of its selections
Structure(row) ==
    [id |-> row.id, group_name |-> row.group_name, guest_names |-> row.guest_names,
     wines |-> [g \in DOMAIN row.selections |->
                  [k \in DOMAIN row.selections[g] |-> row.selections[g][k].wine]]]

\* C25: the selection structure is fixed at creation: whatever the sequence
\* and interleaving of selection-status updates and lifecycle transitions,
\* every stored order keeps its id, group name, guest names, guest set and
\* each guest's selections in number, order and wine.
C25_StructureFixed ==
    [][\A i \in DOMAIN dbOrders :
          /\ i \in DOMAIN dbOrders'
          /\ Structure(dbOrders'[i]) = Structure(dbOrders[i])]_vars

\* C25 witness: an order of two guests has had a selection status updated and
\* its lifecycle status changed since it was created
C25_Witness ==
    \E i \in DOMAIN dbOrders :
        /\ dbOrders[i].status = "completed"
        /\ DOMAIN dbOrders[i].selections = {"A", "B"}
        /\ dbOrders[i].selections["A"][1].status = "servi"
        /\ dbOrders[i].updated_at > dbOrders[i].created_at

\* the time of the last change an order row records: updated_at, or the
\* only timestamp of the row where the table has no such column
UpdatedAt(row) ==
    IF "updated_at" \in DOMAIN row THEN row.updated_at ELSE row.created_at

\* C26: every successful mutation of the selections of an order strictly
\* advances the time of the last change that the order records.
C26_UpdatedAtAdvances ==
    [][\A r \in Slots :
          ToggleWritten(r)
              => UpdatedAt(FindById(dbOrders', reqs[r].ident))
                    > UpdatedAt(FindById(dbOrders, reqs[r].ident))]_vars

\* C27: a create that supplies no wineryId is not turned down for it: the
\* only creates answered 400 (missing required fields) are those that
\* supply no group name.
C27_DefaultWinery ==
    (last.op = "create" /\ last.code = 400) => last.ident = <<>>

(***************************************************************************)
(* The group slug.                                                         *)
(***************************************************************************)
\* a name in lower case with each maximal run of characters that are neither
\* letters nor digits replaced by one separator
RECURSIVE Collapsed(_)
Collapsed(name) ==
    IF name = <<>> THEN <<>>
    ELSE LET c == LowerChar(Head(name))
             rest == Collapsed(Tail(name))
         IN IF IsLowerAlnum(c) THEN <<c>> \o rest
            ELSE IF rest # <<>> /\ rest[1] = "_" THEN rest
            ELSE <<"_">> \o rest

\* C28: the group slug of every stored order is its group name in lower case
\* with each maximal run of non-alphanumeric characters collapsed into one
\* separator, so names that differ only in the length of such runs ("T 5",
\* "T  5") have the same slug.
C28_SlugCollapsesRuns ==
    \A i \in DOMAIN mapOrders :
        mapOrders[i].groupId = Collapsed(mapOrders[i].groupName)

(***************************************************************************)
(* Conflicts and missing orders in the production router.                  *)
(***************************************************************************)
\* a create is refused at its existence check with a group name given
CreateRefused ==
    /\ nreq' # nreq
    /\ reqs' = reqs
    /\ last'.op = "create"
    /\ last'.code = 400
    /\ last'.ident # <<>>

\* C29: a create is refused as a conflict only when an active order has its
\* group name; when the orders of that name are all completed or cancelled
\* the create is not refused.
C29_ConflictOnlyWithActive ==
    [][CreateRefused =>
          \E i \in DOMAIN dbOrders :
              /\ dbOrders[i].group_name = last'.ident
              /\ dbOrders[i].status = "active"]_vars

\* a lifecycle status request is answered
StatusAnswered ==
    /\ nreq' # nreq
    /\ reqs' = reqs
    /\ last'.op = "status"

\* C30: a lifecycle status request for an identifier that denotes no order
\* reports no success and leaves the orders unchanged.
C30_MissingOrderNotFound ==
    [][(StatusAnswered /\ RowsWithId(dbOrders, last'.ident) = {}) =>
          /\ ~ last'.success
          /\ dbOrders' = dbOrders]_vars

(***************************************************************************)
(* Queries the store never answers (express server).                       *)
(*                                                                         *)
(* The pool is built from connection parameters only, and every           *)
(* handler awaits pool.query(...) as it is: a query the store does not     *)
(* answer neither resolves nor rejects, and nothing else resumes the       *)
(* handler.                                                                *)
(***************************************************************************)
\* POST /api/orders: the INSERT is sent and never answered
SrvCreateStalls(r, wineryId, name) ==
    /\ Receive(MaxSrvReqs)
    /\ IsFree(r)
    /\ wineryId # 0
    /\ name # <<>>
    /\ reqs' = [reqs EXCEPT ![r] = [pc |-> "stalled", at |-> "insert", op |-> "create",
                                    name |-> name]]
    /\ UNCHANGED <<mapVars, fbVars, env, sockets, events, dbOrders, dbNextId, now, last>>

\* PUT /api/orders/:orderId/status: the SELECT is sent and never answered
SrvSelectStalls(r, orderId, guest, itemIndex, newStatus) ==
    /\ Receive(MaxSrvReqs)
    /\ IsFree(r)
    /\ guest # Undefined
    /\ newStatus # Undefined
    /\ reqs' = [reqs EXCEPT ![r] = [pc |-> "stalled", at |-> "select", op |-> "update",
                                    ident |-> orderId,
                                    target |-> Target(guest, itemIndex, newStatus)]]
    /\ UNCHANGED <<mapVars, fbVars, env, sockets, events, dbOrders, dbNextId, now, last>>

\* PUT /api/orders/:orderId/status: the UPDATE is sent and never answered
SrvWriteStalls(r) ==
    /\ reqs[r].pc = "update"
    /\ reqs' = [reqs EXCEPT ![r] = [pc |-> "stalled", at |-> "update", op |-> "update",
                                    ident |-> reqs[r].ident, target |-> reqs[r].target]]
    /\ UNCHANGED <<mapVars, fbVars, env, sockets, events, dbOrders, dbNextId, now,
                   last, nreq>>

\* the steps of a handler once the store or io has answered it
Resume(r) ==
    \/ \E emitOk \in BOOLEAN : SrvCreateEmit(r, emitOk)
    \/ \E dbOk \in BOOLEAN : SrvUpdateWrite(r, dbOk)
    \/ \E emitOk \in BOOLEAN : SrvUpdateEmit(r, emitOk)

NextStall ==
    \/ \E r \in Slots, wineryId \in WineryInputs, name \in IoNameInputs,
          body \in Payloads, dbOk \in BOOLEAN :
            SrvCreateInsert(r, wineryId, name, body, dbOk)
    \/ \E r \in Slots, emitOk \in BOOLEAN : SrvCreateEmit(r, emitOk)
    \/ \E r \in Slots, orderId \in OrderIds, guest \in IoGuestInputs,
          itemIndex \in WineIndexes, newStatus \in IoStatusInputs, dbOk \in BOOLEAN :
            SrvUpdateSelect(r, orderId, guest, itemIndex, newStatus, dbOk)
    \/ \E r \in Slots, dbOk \in BOOLEAN : SrvUpdateWrite(r, dbOk)
    \/ \E r \in Slots, emitOk \in BOOLEAN : SrvUpdateEmit(r, emitOk)
    \/ \E r \in Slots, wineryId \in WineryInputs, name \in IoNameInputs :
          SrvCreateStalls(r, wineryId, name)
    \/ \E r \in Slots, orderId \in OrderIds, guest \in IoGuestInputs,
          itemIndex \in WineIndexes, newStatus \in IoStatusInputs :
            SrvSelectStalls(r, orderId, guest, itemIndex, newStatus)
    \/ \E r \in Slots : SrvWriteStalls(r)

\* the event loop runs every handler that has been answered
SpecStall == Init /\ [][NextStall]_vars /\ \A r \in Slots : WF_vars(Resume(r))

\* C31: no operation blocks indefinitely: every request a handler has taken
\* up is eventually answered, with its result or with an error, even when
\* the store never answers a query.
C31_EveryRequestCompletes ==
    \A r \in Slots : (reqs[r].pc # "free") ~> (reqs[r].pc = "free")

(***************************************************************************)
(* Concurrent requests.                                                    *)
(***************************************************************************)
\* the toggle of slot r applied to the selections of its order as they are
\* stored in rows
ToggleApplied(rows, r) ==
    LET stored == FindById(rows, reqs[r].ident).selections
        target == reqs[r].target
    IN SetSelection(stored, target.guest, target.index,
                    ToggleStatus(stored[target.guest][target.index + 1].status))

\* C32: the writes to one order are serialized: every status update that
\* reports success leaves the stored selections as its toggle applied to the
\* selections stored just before its write, so that concurrent updates end as
\* if applied one after the other, and two concurrent toggles of a pending
\* selection end in non-servi.
C32_WritesSerialized ==
    [][\A r \in Slots :
          ToggleWritten(r)
              => FindById(dbOrders', reqs[r].ident).selections
                    = ToggleApplied(dbOrders, r)]_vars

\* the step is of an operation on the order with this id: the write of a
\* status update of a selection, or a request to set the lifecycle status
OperatesOn(id) ==
    \/ \E r \in Slots :
          /\ reqs[r].pc = "update"
          /\ reqs'[r].pc # "update"
          /\ reqs[r].ident = id
    \/ /\ nreq' # nreq
       /\ last'.op = "status"
       /\ last'.ident = id

\* C33: orders are independent: a create, a status update of a selection or
\* a lifecycle status change of one order, under any interleaving, leaves
\* every field of every other order as it was.
C33_OrdersIndependent ==
    [][\A i \in DOMAIN dbOrders :
          /\ i \in DOMAIN dbOrders'
          /\ dbOrders'[i] # dbOrders[i] => OperatesOn(dbOrders[i].id)]_vars

\* C33 witness: one order has been completed after the other was created,
\* and the other is active and as its create wrote it
C33_Witness ==
    \E i, j \in DOMAIN dbOrders :
        /\ dbOrders[i].status = "completed"
        /\ dbOrders[j].status = "active"
        /\ dbOrders[j].updated_at = dbOrders[j].created_at
        /\ dbOrders[i].updated_at > dbOrders[j].created_at

(***************************************************************************)
(* Reads after writes.                                                     *)
(***************************************************************************)
\* a read of the order whose create was the request answered just before
ReadOfCreated ==
    /\ nreq' # nreq
    /\ last'.op = "get"
    /\ last.op = "create"
    /\ last.success
    /\ last'.ident = last.order.orderId

DeleteRows(rows, id) == SelectSeq(rows, LAMBDA row : row.id # id)

\* DELETE /api/orders/:orderId
SrvDelete(orderId, dbOk, emitOk) ==
    /\ Receive(MaxSrvReqs)
    /\ UNCHANGED <<mapVars, fbVars, env, sockets, dbNextId, now, reqs>>
    /\ IF ~ dbOk
       THEN /\ last' = Response("delete", orderId, NoTarget, 500, NoOrder, FALSE)
            /\ UNCHANGED <<dbOrders, events>>
       ELSE IF RowsWithId(dbOrders, orderId) = {}
       THEN /\ last' = Response("delete", orderId, NoTarget, 404, NoOrder, FALSE)
            /\ UNCHANGED <<dbOrders, events>>
       ELSE /\ dbOrders' = DeleteRows(dbOrders, orderId)
            /\ IF emitOk
               THEN /\ events' = Append(events,
                            Event("order_deleted", orderId, NoTarget, NoOrder))
                    /\ last' = Response("delete", orderId, NoTarget, 200, NoOrder, TRUE)
               ELSE /\ last' = Response("delete", orderId, NoTarget, 500, NoOrder, FALSE)
                    /\ UNCHANGED events

NextDel ==
    \/ \E r \in Slots, wineryId \in WineryInputs, name \in IoNameInputs,
          body \in Payloads, dbOk \in BOOLEAN :
            SrvCreateInsert(r, wineryId, name, body, dbOk)
    \/ \E r \in Slots, emitOk \in BOOLEAN : SrvCreateEmit(r, emitOk)
    \/ \E r \in Slots, orderId \in OrderIds, guest \in IoGuestInputs,
          itemIndex \in WineIndexes, newStatus \in IoStatusInputs, dbOk \in BOOLEAN :
            SrvUpdateSelect(r, orderId, guest, itemIndex, newStatus, dbOk)
    \/ \E r \in Slots, dbOk \in BOOLEAN : SrvUpdateWrite(r, dbOk)
    \/ \E r \in Slots, emitOk \in BOOLEAN : SrvUpdateEmit(r, emitOk)
    \/ \E orderId \in OrderIds, dbOk \in BOOLEAN, emitOk \in BOOLEAN :
          SrvDelete(orderId, dbOk, emitOk)

SpecDel == Init /\ [][NextDel]_vars

\* C35: a status update reports success, and announces an updated order,
\* only when its write was applied to an order that was in the store at the
\* time of the write: the success and the event carry the order written.
C35_SuccessOnlyIfWritten ==
    /\ (last.op = "update" /\ last.success) => last.order # NoOrder
    /\ \A k \in StatusUpdates : events[k].order # NoOrder

\* the event this step emits, if it emits one
Emitted == events'[Len(events')]

\* C36: an order-created or order-updated event is emitted only after the
\* write it announces has been committed, so it carries the row that write
\* left in the store; and a request answered as failed emits no event.
C36_EventAfterCommit ==
    [][/\ (Len(events') > Len(events)
              /\ Emitted.type \in {"new_order", "status_update"})
          => /\ Emitted.order # NoOrder
             /\ Emitted.order.id = Emitted.orderId
             /\ Emitted.order.updated_at <= now
       /\ (last' # last /\ ~ last'.success) => events' = events]_vars

(***************************************************************************)
(* Viewers of the express server.                                          *)
(***************************************************************************)
\* creates and status updates in any interleaving, io.emit never throwing,
\* with terminals that connect and stay connected
NextView ==
    \/ \E r \in Slots, wineryId \in WineryInputs, name \in IoNameInputs,
          body \in Payloads, dbOk \in BOOLEAN :
            SrvCreateInsert(r, wineryId, name, body, dbOk)
    \/ \E r \in Slots : SrvCreateEmit(r, TRUE)
    \/ \E r \in Slots, orderId \in OrderIds, guest \in IoGuestInputs,
          itemIndex \in WineIndexes, newStatus \in IoStatusInputs, dbOk \in BOOLEAN :
            SrvUpdateSelect(r, orderId, guest, itemIndex, newStatus, dbOk)
    \/ \E r \in Slots, dbOk \in BOOLEAN : SrvUpdateWrite(r, dbOk)
    \/ \E r \in Slots : SrvUpdateEmit(r, TRUE)
    \/ \E w \in SocketWineries : SrvConnect(w)

SpecView == Init /\ [][NextView]_vars

\* the status updates of order id that terminal w has received since it
\* connected
Received(w, id) ==
    { k \in StatusUpdates : w \in events[k].to /\ events[k].orderId = id }

\* the copy of order id at terminal w: the order carried by the last status
\* update of it that w has received
ViewerCopy(w, id) ==
    events[CHOOSE k \in Received(w, id) : \A m \in Received(w, id) : m <= k].order

\* C37: viewer convergence: once no request is in flight, a connected
\* terminal that replaces its copy of an order by the order each event
\* carries, in the order of delivery, holds the order as it is stored.
C37_ViewerConverges ==
    Idle =>
        \A w \in sockets, i \in DOMAIN dbOrders :
            Received(w, dbOrders[i].id) # {}
                => ViewerCopy(w, dbOrders[i].id) = dbOrders[i]

(***************************************************************************)
(* The group index of the Map server.                                      *)
(***************************************************************************)
\* C38: every entry of the group index refers to an order of the order map,
\* the groupId of that order is the key of the entry, and the key is the slug
\* of the group name of that order.
C38_GroupIndexConsistent ==
    \A k \in DOMAIN mapGroups :
        /\ MapHas(mapOrders, mapGroups[k].orderId)
        /\ MapGet(mapOrders, mapGroups[k].orderId).groupId = mapGroups[k].id
        /\ mapGroups[k].id = Slug(MapGet(mapOrders, mapGroups[k].orderId).groupName)

\* C38 witness: two orders whose group names differ and slug alike, under one
\* entry of the group index, which refers to the second of them
C38_Witness ==
    /\ Len(mapOrders) = 2
    /\ Len(mapGroups) = 1
    /\ mapOrders[1].groupName # mapOrders[2].groupName
    /\ mapGroups[1].orderId = mapOrders[2].id

(***************************************************************************)
(* Orders that share a group name (uuid orders router).                    *)
(***************************************************************************)
\* creates, status updates by group name and reads by group name, all of
\* the one group name of IoNameInputs
NextName ==
    \/ \E r \in Slots, name \in IoNameInputs, body \in Payloads,
          wineryId \in WineryInputs, dbOk \in BOOLEAN :
            RtCreateInsert(r, name, body, wineryId, dbOk)
    \/ \E r \in Slots : RtCreateEmit(r)
    \/ \E r \in Slots, param \in IoNameInputs, guest \in IoGuestInputs,
          wineIndex \in WineIndexes, newStatus \in IoStatusInputs, dbOk \in BOOLEAN :
            RtPutStatus(r, param, guest, wineIndex, newStatus, dbOk)
    \/ \E r \in Slots, dbOk \in BOOLEAN : RtPutWrite(r, dbOk)
    \/ \E name \in IoNameInputs, dbOk \in BOOLEAN : RtGetGroup(name, dbOk)

SpecName == InitRt /\ [][NextName]_vars

\* the order of a group name that was inserted last
MostRecent(rows, name) ==
    rows[CHOOSE i \in RowsWithName(rows, name) : \A j \in RowsWithName(rows, name) : j <= i]

\* the step answers a read by group name
ReadByName ==
    /\ nreq' # nreq
    /\ reqs' = reqs
    /\ dbOrders' = dbOrders
    /\ last'.op = "GETGROUP"

\* C39: when several orders share a group name, a status update addressed by
\* that name is applied to the most recently created of them and to no other
\* order, and a read by that name answers that same order.
C39_NameMeansMostRecent ==
    [][/\ \A r \in Slots :
             (Arrived(r) /\ reqs'[r].pc = "update")
                 => reqs'[r].orderId = MostRecent(dbOrders, reqs'[r].ident).id
       /\ \A r \in Slots :
             (reqs[r].pc = "update" /\ reqs'[r].pc = "free")
                 => \A i \in DOMAIN dbOrders :
                       IF dbOrders[i].id = reqs[r].orderId
                       THEN last'.success
                               => dbOrders'[i].selections = reqs[r].selections
                       ELSE dbOrders'[i] = dbOrders[i]
       /\ (ReadByName /\ last'.success)
             => last'.order = MostRecent(dbOrders, last'.ident)]_vars

\* C39 witness: of two orders of one group name the second has been updated
\* and the first is as its create wrote it
C39_Witness ==
    \E i, j \in DOMAIN dbOrders :
        /\ i < j
        /\ dbOrders[i].group_name = dbOrders[j].group_name
        /\ dbOrders[i].updated_at = dbOrders[i].created_at
        /\ dbOrders[j].updated_at > dbOrders[j].created_at

(***************************************************************************)
(* The name fallback of the Map resolver.                                  *)
(***************************************************************************)
\* the group index answers the identifier with an order of the order map
GroupLookupSucceeds(identifier) ==
    /\ MapHas(mapGroups, identifier)
    /\ MapHas(mapOrders, MapGet(mapGroups, identifier).orderId)

\* the order created last among those whose slugged group name is the identifier
LastWithSluggedName(identifier) ==
    mapOrders[CHOOSE i \in OrdersWithSluggedName(mapOrders, identifier) :
                 \A j \in OrdersWithSluggedName(mapOrders, identifier) : j <= i]

\* C40: the name-fallback scan never decides the outcome: for every
\* identifier that is the slugged group name of some order the lookup in the
\* group index succeeds, and the order returned for it is the one created
\* last with that slug.
C40_ScanNeverDecides ==
    \A identifier \in MapIdents :
        OrdersWithSluggedName(mapOrders, identifier) # {}
            => /\ GroupLookupSucceeds(identifier)
               /\ MapResolve(mapOrders, mapGroups, identifier)
                     = LastWithSluggedName(identifier)

\* C40 as amended: for every identifier that is the slugged group name of
\* some order the lookup in the group index succeeds, and the order returned
\* for it is the one created last with that slug unless the identifier is
\* also the id of an order, which is then the order returned.
C40_ScanNeverDecidesButForIds ==
    \A identifier \in MapIdents :
        OrdersWithSluggedName(mapOrders, identifier) # {}
            => /\ GroupLookupSucceeds(identifier)
               /\ MapResolve(mapOrders, mapGroups, identifier)
                     = IF MapHas(mapOrders, identifier)
                       THEN MapGet(mapOrders, identifier)
                       ELSE LastWithSluggedName(identifier)

\* C40 witness: a read by a slug that two orders of different group names
\* share, and that is no order id, has answered the second of them
C40_Witness ==
    /\ Len(mapOrders) = 2
    /\ mapOrders[1].groupName # mapOrders[2].groupName
    /\ Slug(mapOrders[1].groupName) = Slug(mapOrders[2].groupName)
    /\ last.op = "GET"
    /\ last.ident = Slug(mapOrders[1].groupName)
    /\ ~ MapHas(mapOrders, last.ident)
    /\ last.order = mapOrders[2]

====
